---------------------------- MODULE Spec2Model ----------------------------
(***************************************************************************)
(* RALPH hooks (thedjpetersen/ralph, src/hooks):                           *)
(*   validate-stop.py   the stop gate and its transcript evidence scanner  *)
(*   auto-approve.py    the Bash command classifier                        *)
(*                                                                         *)
(* Texts (commands, transcripts, regular expressions) are TLA+ strings,    *)
(* read character by character with SubSeq.  The regular expressions of    *)
(* the source are kept verbatim (a backslash is written \\ in a TLA+       *)
(* string) and interpreted by the matcher below, which implements the part *)
(* of Python's re syntax those expressions use, under re.IGNORECASE.       *)
(* The three non-ASCII characters of validate-stop.py line 107 (U+00E2,    *)
(* U+0153, U+201C) cannot be written in a TLA+ string; they are written    *)
(* "#", "%", "~" here, in the pattern and in the transcripts alike.        *)
(***************************************************************************)
EXTENDS Integers, Sequences, FiniteSets, TLC

(***************************************************************************)
(* Characters and strings                                                  *)
(***************************************************************************)
Ch(s, i) == SubSeq(s, i, i)

\* the characters of a string, as a set
CharSet(str) == {Ch(str, i) : i \in 1..Len(str)}

UpperAlphabet == "ABCDEFGHIJKLMNOPQRSTUVWXYZ"

LowerAlphabet == "abcdefghijklmnopqrstuvwxyz"

\* \d
Digits == CharSet("0123456789")

\* str whitespace: what \s matches and what str.strip() removes
Whitespace == CharSet(" \t\n\r\f")

\* \w: a letter, a digit or the underscore ("#" and "%" stand for two letters)
WordChars == CharSet(UpperAlphabet) \cup CharSet(LowerAlphabet) \cup Digits \cup CharSet("_#%")

\* re.IGNORECASE: a character of the pattern stands for both of its cases
BothCases(chars) ==
    chars
    \cup {Ch(LowerAlphabet, i) : i \in {j \in 1..Len(UpperAlphabet) : Ch(UpperAlphabet, j) \in chars}}
    \cup {Ch(UpperAlphabet, i) : i \in {j \in 1..Len(LowerAlphabet) : Ch(LowerAlphabet, j) \in chars}}

\* s.startswith(prefix)
StartsWith(s, prefix) == Len(s) >= Len(prefix) /\ SubSeq(s, 1, Len(prefix)) = prefix

\* s.endswith(suffix)
EndsWith(s, suffix) ==
    Len(s) >= Len(suffix) /\ SubSeq(s, Len(s) - Len(suffix) + 1, Len(s)) = suffix

\* sub in s
Contains(s, sub) ==
    \E i \in 1..(Len(s) - Len(sub) + 1) : SubSeq(s, i, i + Len(sub) - 1) = sub

\* s.lower(), for the short strings it is used on
RECURSIVE lower(_)
lower(s) ==
    IF s = "" THEN ""
    ELSE LET c == Ch(s, 1)
             up == {j \in 1..Len(UpperAlphabet) : Ch(UpperAlphabet, j) = c}
         IN  (IF up = {} THEN c ELSE Ch(LowerAlphabet, CHOOSE j \in up : TRUE))
             \o lower(SubSeq(s, 2, Len(s)))

\* s.lstrip("/")
RECURSIVE lstrip_slash(_)
lstrip_slash(s) ==
    IF s # "" /\ Ch(s, 1) = "/" THEN lstrip_slash(SubSeq(s, 2, Len(s))) ELSE s

\* str.strip()
strip(s) ==
    LET keep == {i \in 1..Len(s) : Ch(s, i) \notin Whitespace}
    IN  IF keep = {} THEN ""
        ELSE SubSeq(s, CHOOSE i \in keep : \A j \in keep : i <= j,
                       CHOOSE i \in keep : \A j \in keep : i >= j)

RECURSIVE splitRange(_, _, _)
splitRange(s, lo, hi) ==
    IF lo > hi THEN <<"">>
    ELSE IF lo = hi THEN (IF Ch(s, lo) = "\n" THEN <<"", "">> ELSE <<Ch(s, lo)>>)
    ELSE LET mid   == (lo + hi) \div 2
             left  == splitRange(s, lo, mid)
             right == splitRange(s, mid + 1, hi)
         IN  SubSeq(left, 1, Len(left) - 1)
             \o <<left[Len(left)] \o right[1]>>
             \o Tail(right)

\* str.split('\n'): the lines between the newlines, an empty one after a final newline
split(s) == splitRange(s, 1, Len(s))

RECURSIVE joinRange(_, _, _, _)
joinRange(sep, lines, lo, hi) ==
    IF lo > hi THEN ""
    ELSE IF lo = hi THEN lines[lo]
    ELSE LET mid == (lo + hi) \div 2
         IN  joinRange(sep, lines, lo, mid) \o sep \o joinRange(sep, lines, mid + 1, hi)

\* sep.join(lines)
join(sep, lines) == joinRange(sep, lines, 1, Len(lines))

\* lines[-n:]
lastN(lines, n) ==
    IF Len(lines) <= n THEN lines ELSE SubSeq(lines, Len(lines) - n + 1, Len(lines))

(***************************************************************************)
(* Regular expressions: re.search(pattern, text, re.IGNORECASE)            *)
(* A parsed expression is a record [t, s, k]: t the node kind, s the set   *)
(* of characters a one-character node accepts, k the sub-expressions.      *)
(***************************************************************************)
Node(t, s, k) == [t |-> t, s |-> s, k |-> k]

RECURSIVE ParseAlt(_, _), ParseSeq(_, _, _), ParseAtom(_, _)

\* one atom at p[i]: a group, a class, an escape, ".", "^", "$" or a literal
ParseAtom(p, i) ==
    LET c == Ch(p, i) IN
    CASE c = "(" ->
            LET g == ParseAlt(p, i + 1) IN [node |-> g.node, next |-> g.next + 1]
      [] c = "[" ->
            LET j == CHOOSE j \in (i + 1)..Len(p) :
                        Ch(p, j) = "]" /\ \A m \in (i + 1)..(j - 1) : Ch(p, m) # "]"
            IN  [node |-> Node("cls", BothCases(CharSet(SubSeq(p, i + 1, j - 1))), <<>>), next |-> j + 1]
      [] c = "\\" ->
            LET e == Ch(p, i + 1) IN
            [node |-> CASE e = "s" -> Node("cls", Whitespace, <<>>)
                        [] e = "d" -> Node("cls", Digits, <<>>)
                        [] e = "b" -> Node("wb", {}, <<>>)
                        [] OTHER   -> Node("cls", {e}, <<>>),
             next |-> i + 2]
      [] c = "." -> [node |-> Node("dot", {}, <<>>), next |-> i + 1]
      [] c = "^" -> [node |-> Node("bol", {}, <<>>), next |-> i + 1]
      [] c = "$" -> [node |-> Node("eol", {}, <<>>), next |-> i + 1]
      [] OTHER   -> [node |-> Node("cls", BothCases({c}), <<>>), next |-> i + 1]

\* a concatenation of quantified atoms, up to "|", ")" or the end
ParseSeq(p, i, acc) ==
    IF i > Len(p) \/ Ch(p, i) = "|" \/ Ch(p, i) = ")"
    THEN [node |-> Node("seq", {}, acc), next |-> i]
    ELSE LET a == ParseAtom(p, i)
             q == IF a.next <= Len(p) THEN Ch(p, a.next) ELSE ""
         IN  CASE q = "*" -> ParseSeq(p, a.next + 1, Append(acc, Node("star", {}, <<a.node>>)))
               [] q = "+" -> ParseSeq(p, a.next + 1, Append(acc, Node("plus", {}, <<a.node>>)))
               [] q = "?" -> ParseSeq(p, a.next + 1, Append(acc, Node("opt", {}, <<a.node>>)))
               [] OTHER   -> ParseSeq(p, a.next, Append(acc, a.node))

\* alternatives separated by "|"
ParseAlt(p, i) ==
    LET b == ParseSeq(p, i, <<>>) IN
    IF b.next <= Len(p) /\ Ch(p, b.next) = "|"
    THEN LET r == ParseAlt(p, b.next + 1)
         IN  [node |-> Node("alt", {}, <<b.node, r.node>>), next |-> r.next]
    ELSE b

\* re.compile(pattern, re.IGNORECASE)
Compile(p) == ParseAlt(p, 1).node

\* whether the one-character node r accepts the character c
Accepts(r, c) == IF r.t = "dot" THEN c # "\n" ELSE c \in r.s

\* the first position from i on whose character the one-character node r refuses
RunEnd(r, s, i) ==
    CHOOSE j \in i..(Len(s) + 1) :
        /\ j = Len(s) + 1 \/ ~Accepts(r, Ch(s, j))
        /\ \A m \in i..(j - 1) : Accepts(r, Ch(s, m))

RECURSIVE Ends(_, _, _), EndsSeq(_, _, _, _), EndsStar(_, _, _)

\* the positions at which a match of r that starts at a position of I can end;
\* position i is the place before s[i], Len(s) + 1 the end of the text
Ends(r, s, I) ==
    CASE r.t \in {"cls", "dot"} ->
                         {i + 1 : i \in {j \in I : j <= Len(s) /\ Accepts(r, Ch(s, j))}}
      [] r.t = "bol"  -> I \cap {1}
      [] r.t = "eol"  -> {i \in I : i = Len(s) + 1 \/ (i = Len(s) /\ Ch(s, i) = "\n")}
      [] r.t = "wb"   -> {i \in I : (i > 1 /\ Ch(s, i - 1) \in WordChars)
                                      # (i <= Len(s) /\ Ch(s, i) \in WordChars)}
      [] r.t = "seq"  -> EndsSeq(r.k, s, I, 1)
      [] r.t = "alt"  -> Ends(r.k[1], s, I) \cup Ends(r.k[2], s, I)
      [] r.t = "opt"  -> I \cup Ends(r.k[1], s, I)
      [] r.t = "star" -> EndsStar(r.k[1], s, I)
      [] r.t = "plus" -> EndsStar(r.k[1], s, Ends(r.k[1], s, I))

EndsSeq(k, s, I, n) ==
    IF n > Len(k) \/ I = {} THEN I ELSE EndsSeq(k, s, Ends(k[n], s, I), n + 1)

\* zero or more r: for a one-character r, from each start in I every position
\* up to the end of the run of accepted characters; otherwise the closure of I
EndsStar(r, s, I) ==
    IF r.t \in {"cls", "dot"}
    THEN UNION {i..RunEnd(r, s, i) : i \in I}
    ELSE LET J == I \cup Ends(r, s, I) IN IF J = I THEN I ELSE EndsStar(r, s, J)

\* re.search(pattern, text, re.IGNORECASE) is not None
re_search(pattern, text) ==
    Ends(Compile(pattern), text, 1..(Len(text) + 1)) # {}

(***************************************************************************)
(* Python values: an optional value is a sequence of length 0 (None, or an *)
(* unset environment variable) or 1; a dict is a function whose domain is  *)
(* the keys present.                                                       *)
(***************************************************************************)
None == <<>>

Some(v) == <<v>>

\* d.get(key, default)
get(d, key, default) == IF key \in DOMAIN d THEN d[key] ELSE default

\* json.load(sys.stdin): None when stdin is not JSON, Some(dict) for a JSON
\* object, NotAnObject for any other JSON value (a list, a string, null)
NotAnObject == <<"json", "[]">>

is_object(stdin) == Len(stdin) = 1

RECURSIVE intFrom(_, _, _)
intFrom(s, i, acc) ==
    IF i > Len(s) THEN acc
    ELSE intFrom(s, i + 1,
                 10 * acc + (CHOOSE d \in 0..9 : ToString(d) = Ch(s, i)))

\* int(s) of a string of decimal digits
int(s) == intFrom(s, 1, 0)

\* any(re.search(p, text, re.IGNORECASE) for p in patterns)
any_search(patterns, text) ==
    \E n \in 1..Len(patterns) : re_search(patterns[n], text)

(***************************************************************************)
(* validate-stop.py: the transcript evidence scanner                       *)
(***************************************************************************)
package_commands ==
    [frontend |-> << <<"cd frontend\\s*&&\\s*npm run build", "build">>,
                     <<"cd frontend\\s*&&\\s*npm test", "test">>,
                     <<"cd frontend\\s*&&\\s*npm run lint", "lint">> >>,
     backend  |-> << <<"cd backend\\s*&&\\s*npm run build", "build">>,
                     <<"cd backend\\s*&&\\s*npm test", "test">>,
                     <<"cd backend\\s*&&\\s*npm run lint", "lint">> >>,
     electron |-> << <<"cd electron\\s*&&\\s*npm run build", "build">>,
                     <<"cd electron\\s*&&\\s*npm test", "test">> >>,
     mobile   |-> << <<"cd mobile\\s*&&\\s*npx tsc", "build">>,
                     <<"cd mobile\\s*&&\\s*npm test", "test">> >>]

\* a variant without the error count
failure_patterns_without_count ==
    <<"FAIL\\s+", "error TS\\d+", "npm ERR!", "Command failed", "Build failed",
      "Test failed">>

\* lines 88-96

failure_patterns ==
    << "FAIL\\s+",
       "error TS\\d+",
       "\\d+ errors?\\b",
       "npm ERR!",
       "Command failed",
       "Build failed",
       "Test failed" >>

success_patterns ==
    << "Build completed",
       "All tests passed",
       "#%~.*tests? passed",
       "Found \\d+ warnings? and 0 errors",
       "0 errors" >>

\* the trailing window of the transcript
RecentLines == 100

\* a variant without the fallback to the default package
commands_of_known_only(target_package) == get(package_commands, target_package, <<>>)

\* package_commands.get(target_package, package_commands["frontend"])
commands_of(target_package) ==
    get(package_commands, target_package, package_commands["frontend"])

\* the names of the commands, in order, whose pattern is found (or not) in the transcript
names_where(commands, transcript, found) ==
    LET hit == SelectSeq(commands, LAMBDA c : re_search(c[1], transcript) = found)
    IN  [n \in 1..Len(hit) |-> hit[n][2]]

\* a variant that looks for the signals in the whole transcript
recent_output_whole(transcript) == transcript

\* lines 85-86: the last 100 lines

recent_output_of(transcript) == join("\n", lastN(split(transcript), RecentLines))

\* a variant that overlooks the failure signal
evidence_passed_ignoring_failures(missing_commands, has_failures, has_success) ==
    Len(missing_commands) = 0 /\ has_success

\* line 123
evidence_passed(missing_commands, has_failures, has_success) ==
    Len(missing_commands) = 0 /\ ~has_failures /\ has_success

check_validation_in_transcript(transcript, target_package) ==
    LET commands         == commands_of(target_package)
        ran_commands     == names_where(commands, transcript, TRUE)
        missing_commands == names_where(commands, transcript, FALSE)
        recent_output    == recent_output_of(transcript)
        has_failures     == any_search(failure_patterns, recent_output)
        has_success      == any_search(success_patterns, recent_output)
    IN  [ran          |-> Len(ran_commands) > 0,
         ran_commands |-> ran_commands,
         missing      |-> missing_commands,
         has_failures |-> has_failures,
         has_success  |-> has_success,
         passed       |-> evidence_passed(missing_commands, has_failures, has_success)]

(***************************************************************************)
(* auto-approve.py: the pattern tiers                                      *)
(***************************************************************************)
SAFE_PATTERNS ==
    << "^cd\\s+(frontend|backend|electron|mobile|chrome-extension)\\s*&&\\s*npm\\s+(run\\s+)?(build|lint|test)",
       "^cd\\s+(frontend|backend|electron|mobile)\\s*&&\\s*npx\\s+(tsc|vitest|playwright|oxlint)",
       "^npm\\s+(run\\s+)?(build|lint|test|typecheck)",
       "^npx\\s+(tsc|vitest|playwright|oxlint|eslint|prettier)",
       "^git\\s+(status|diff|log|branch|show|ls-files)",
       "^git\\s+diff\\s+",
       "^npm\\s+(ls|list|outdated|audit)",
       "^cat\\s+package\\.json",
       "^ls\\s",
       "^pwd$",
       "^echo\\s",
       "^which\\s",
       "^node\\s+--version",
       "^npm\\s+--version" >>

DANGEROUS_PATTERNS ==
    << "rm\\s+(-[rf]+\\s+|.*-[rf])",
       "sudo\\s+",
       "chmod\\s+777",
       ">\\s*/dev/",
       "\\|\\s*(ba)?sh",
       "curl.*\\|\\s*(ba)?sh",
       "wget.*\\|\\s*(ba)?sh",
       "eval\\s+",
       ":\\s*\\(\\)\\s*\\{",
       "mkfs\\.",
       "dd\\s+if=" >>

ASK_PATTERNS ==
    << "git\\s+(push|pull|checkout|merge|rebase|reset)",
       "npm\\s+(install|uninstall|update)",
       "rm\\s+",
       "mv\\s+",
       "cp\\s+" >>

(***************************************************************************)
(* validate-stop.py: the persisted GateState (.ralph/hook-state.json)      *)
(* The file is None while it does not exist and Some(dict) once written.   *)
(* A file the gate did not write is a pair: <<"text", t>> holds text that  *)
(* is not JSON, <<"json", t>> holds JSON that is not an object, and        *)
(* <<"count", dict>> holds an object whose continuation_count is not a     *)
(* number.                                                                 *)
(***************************************************************************)
\* line 33: json.loads raises on text that is not JSON
unparseable(file) == Len(file) = 2 /\ file[1] = "text"

\* line 33 returns whatever JSON the file holds: a list or null is no dict
not_a_dict(file) == Len(file) = 2 /\ file[1] = "json"

\* line 33 returns the dict with the count it holds, a number or not
count_not_number(file) == Len(file) = 2 /\ file[1] = "count"

load_ralph_state(file) ==
    IF file = None \/ unparseable(file)
    THEN [continuation_count |-> 0, session_id |-> None]
    ELSE IF count_not_number(file)
    THEN file[2]
    ELSE file[1]

save_ralph_state(state) == Some(state)

(***************************************************************************)
(* The transcripts the stop gate is run against, and the files of the      *)
(* transcript directory: a path that is not in the domain does not exist,  *)
(* a file that is not readable makes open() raise.                         *)
(***************************************************************************)
FrontendBuild == "cd frontend && npm run build\n> vite build\n"

FrontendTest == "cd frontend && npm test\n> vitest run\n"

FrontendLint == "cd frontend && npm run lint\n> oxlint\n"

MobileRun == "cd mobile && npx tsc\ncd mobile && npm test\n"

transcript_files ==
    [t_pass     |-> [readable |-> TRUE,
                     text |-> FrontendBuild \o FrontendTest \o FrontendLint \o "Build completed\n"],
     t_nolint   |-> [readable |-> TRUE,
                     text |-> FrontendBuild \o FrontendTest \o "Build completed\n"],
     t_failed   |-> [readable |-> TRUE,
                     text |-> FrontendBuild \o FrontendTest \o FrontendLint
                              \o "Build completed\nTest failed\n"],
     t_silent   |-> [readable |-> TRUE,
                     text |-> FrontendBuild \o FrontendTest \o FrontendLint],
     t_mobile   |-> [readable |-> TRUE,
                     text |-> MobileRun \o "All tests passed\n"],
     t_locked   |-> [readable |-> FALSE, text |-> ""]]

\* the scans of the transcript files, computed once
ScanCache ==
    [x \in {<<transcript_files[f].text, pkg>> :
                f \in DOMAIN transcript_files, pkg \in {"frontend", "mobile"}}
        |-> check_validation_in_transcript(x[1], x[2])]

Scan(transcript, target_package) == ScanCache[<<transcript, target_package>>]

(***************************************************************************)
(* validate-stop.py: main.  stdin is None when it is not JSON, else        *)
(* Some(dict); environ is the dict of the environment variables; file is   *)
(* the state file before the run.  The result holds the exit status, the   *)
(* JSON printed to stdout (None when nothing is printed), the state file   *)
(* after the run, the exit taken and the in-memory continuation count at   *)
(* the exit (0 on the exits that never load the state).                    *)
(***************************************************************************)
DefaultMaxContinuations == "5"

Exit(code, stdout, file, path, count) ==
    [exit_code |-> code, stdout |-> stdout, file |-> file, path |-> path, count |-> count]

\* a variant that reports failures before missing commands
block_reason_failures_first(validation, target_package, count, max_continuations) ==
    (IF validation.has_failures
     THEN "Validation errors detected. Fix the errors and re-run validation commands."
     ELSE IF Len(validation.missing) > 0
     THEN "Run validation before completing. Missing: "
          \o join(", ", validation.missing) \o ". "
          \o "Commands: cd " \o target_package
          \o " && npm run build && npm test && npm run lint"
     ELSE "Validation commands ran but success not confirmed. Re-run: cd "
          \o target_package \o " && npm run build && npm test && npm run lint")
    \o " (Continuation " \o ToString(count) \o "/" \o ToString(max_continuations) \o ")"

\* lines 187-198: the guidance of a Block
block_reason(validation, target_package, count, max_continuations) ==
    (IF Len(validation.missing) > 0
     THEN "Run validation before completing. Missing: "
          \o join(", ", validation.missing) \o ". "
          \o "Commands: cd " \o target_package
          \o " && npm run build && npm test && npm run lint"
     ELSE IF validation.has_failures
     THEN "Validation errors detected. Fix the errors and re-run validation commands."
     ELSE IF ~validation.has_success
     THEN "Validation commands ran but success not confirmed. Re-run: cd "
          \o target_package \o " && npm run build && npm test && npm run lint"
     ELSE "Validation incomplete. Ensure all commands pass before completing.")
    \o " (Continuation " \o ToString(count) \o "/" \o ToString(max_continuations) \o ")"

\* a variant that adopts a new session id and keeps the old count
updated_state_keeps_count(state, session_id) ==
    [continuation_count |-> state.continuation_count + 1, session_id |-> session_id]

\* a variant that forgets the increment
updated_state_no_increment(state, session_id) ==
    IF state.session_id # session_id
    THEN [continuation_count |-> 0, session_id |-> session_id]
    ELSE state

\* lines 150-155: the state after the session check and the increment
updated_state(state, session_id) ==
    LET current == IF state.session_id # session_id
                   THEN [continuation_count |-> 0, session_id |-> session_id]
                   ELSE state
    IN  [current EXCEPT !.continuation_count = @ + 1]

\* a variant that is off by one
max_reached_off_by_one(count, max_continuations) == count > max_continuations + 1

\* line 159: the max-continuations escape
max_reached(count, max_continuations) == count > max_continuations

\* a variant that reads another key
stop_hook_active_wrong_key(input_data) == get(input_data, "stopHookActive", FALSE)

\* line 139: the request continues a stop that was blocked before
stop_hook_active(input_data) == get(input_data, "stop_hook_active", FALSE)

\* a variant that expects another value
force_stop_as_flag(environ) == get(environ, "RALPH_FORCE_STOP", "") = "1"

\* line 135: the emergency escape hatch
force_stop(environ) == get(environ, "RALPH_FORCE_STOP", "") = "true"

\* lines 142 and 183: the count of a stop that is let through
reset_count(state) == [state EXCEPT !.continuation_count = 0]

\* line 158
max_continuations_of(environ) ==
    int(get(environ, "RALPH_MAX_CONTINUATIONS", DefaultMaxContinuations))

\* a variant that lets a stop through once any command was run
validation_ran(validation) == validation.ran

\* line 182
validation_passed(validation) == validation.passed

\* lines 181-205: the exit on the evidence report
validation_exit(validation, state, target_package, max_continuations) ==
    IF validation_passed(validation)
    THEN Exit(0, None, save_ralph_state(reset_count(state)), "passed",
              state.continuation_count)
    ELSE Exit(0,
              Some([decision |-> "block",
                    reason   |-> block_reason(validation, target_package,
                                              state.continuation_count,
                                              max_continuations)]),
              save_ralph_state(state), "block", state.continuation_count)

\* a variant that scans a transcript it could not read as an empty one
transcript_exit_fail_closed(transcript_path, state, target_package, max_continuations) ==
    IF transcript_path = "" \/ transcript_path \notin DOMAIN transcript_files
    THEN Exit(0, None, save_ralph_state(state), "no_transcript",
              state.continuation_count)
    ELSE validation_exit(Scan(transcript_files[transcript_path].text, target_package),
                         state, target_package, max_continuations)

\* lines 163-179: the transcript is read and scanned
transcript_exit(transcript_path, state, target_package, max_continuations) ==
    IF transcript_path = "" \/ transcript_path \notin DOMAIN transcript_files
    THEN Exit(0, None, save_ralph_state(state), "no_transcript",
              state.continuation_count)
    ELSE IF ~transcript_files[transcript_path].readable
    THEN Exit(0, None, save_ralph_state(state), "unreadable_transcript",
              state.continuation_count)
    ELSE validation_exit(Scan(transcript_files[transcript_path].text, target_package),
                         state, target_package, max_continuations)

\* a variant whose max-continuations escape stores count 0
gate_exit_resetting(input_data, environ, state, max_continuations) ==
    IF state.continuation_count > max_continuations
    THEN Exit(0, None, save_ralph_state([state EXCEPT !.continuation_count = 0]),
              "max_continuations", state.continuation_count)
    ELSE transcript_exit(get(input_data, "transcript_path", ""), state,
                         get(environ, "RALPH_TARGET_PACKAGE", "frontend"),
                         max_continuations)

\* lines 157-161, on the state saved at line 155
gate_exit(input_data, environ, state, max_continuations) ==
    IF max_reached(state.continuation_count, max_continuations)
    THEN Exit(0, None, save_ralph_state(state), "max_continuations",
              state.continuation_count)
    ELSE transcript_exit(get(input_data, "transcript_path", ""), state,
                         get(environ, "RALPH_TARGET_PACKAGE", "frontend"),
                         max_continuations)

\* lines 139-154: the stored count is added to when the request is gated and
\* the stored session id is the request's; a count that is no number raises
count_adds(file, input_data) ==
    /\ count_not_number(file)
    /\ ~stop_hook_active(input_data)
    /\ load_ralph_state(file).session_id = get(input_data, "session_id", Some("unknown"))

validate_stop_main(stdin, environ, file) ==
    IF stdin = None
    THEN Exit(1, None, file, "bad_input", 0)
    ELSE IF force_stop(environ)
    THEN Exit(0, None, file, "force_stop", 0)
    ELSE IF ~is_object(stdin)
    THEN Exit(1, None, file, "crash", 0)          \* line 139: AttributeError
    ELSE IF not_a_dict(file)
    THEN Exit(1, None, file, "crash", 0)          \* line 142 or 151, on a list
    ELSE IF count_adds(file, stdin[1])
    THEN Exit(1, None, file, "crash", 0)          \* line 154: TypeError
    ELSE IF stop_hook_active(stdin[1])
    THEN Exit(0, None, save_ralph_state(reset_count(load_ralph_state(file))),
              "stop_hook_active", 0)
    ELSE gate_exit(stdin[1], environ,
                   updated_state(load_ralph_state(file),
                                 get(stdin[1], "session_id", Some("unknown"))),
                   max_continuations_of(environ))

(***************************************************************************)
(* auto-approve.py: main.  The result holds the exit status, the JSON      *)
(* printed to stdout, the line printed to stderr and the exit taken.       *)
(***************************************************************************)
HookExit(code, stdout, stderr, path) ==
    [exit_code |-> code, stdout |-> stdout, stderr |-> stderr, path |-> path]

allow_output ==
    [hookSpecificOutput |->
        [hookEventName            |-> "PreToolUse",
         permissionDecision       |-> "allow",
         permissionDecisionReason |-> "Auto-approved by RALPH (safe validation command)"]]

\* the first pattern of the list found in the text (the loop exits on it)
first_search(patterns, text) ==
    patterns[CHOOSE n \in 1..Len(patterns) :
                /\ re_search(patterns[n], text)
                /\ \A m \in 1..(n - 1) : ~re_search(patterns[m], text)]

\* a variant that consults the Safe tier first
classify_safe_first(command_normalized) ==
    IF any_search(SAFE_PATTERNS, command_normalized)
    THEN HookExit(0, Some(allow_output), None, "safe")
    ELSE IF any_search(DANGEROUS_PATTERNS, command_normalized)
    THEN HookExit(2, None,
                  Some("Blocked dangerous command pattern: "
                       \o first_search(DANGEROUS_PATTERNS, command_normalized)),
                  "dangerous")
    ELSE IF any_search(ASK_PATTERNS, command_normalized)
    THEN HookExit(0, None, None, "ask")
    ELSE HookExit(0, None, None, "default")

\* lines 91-117: the three loops over the tiers, on the normalized command
classify(command_normalized) ==
    IF any_search(DANGEROUS_PATTERNS, command_normalized)
    THEN HookExit(2, None,
                  Some("Blocked dangerous command pattern: "
                       \o first_search(DANGEROUS_PATTERNS, command_normalized)),
                  "dangerous")
    ELSE IF any_search(ASK_PATTERNS, command_normalized)
    THEN HookExit(0, None, None, "ask")
    ELSE IF any_search(SAFE_PATTERNS, command_normalized)
    THEN HookExit(0, Some(allow_output), None, "safe")
    ELSE HookExit(0, None, None, "default")

auto_approve_main(stdin, environ) ==
    IF stdin = None
    THEN HookExit(0, None, None, "bad_input")
    ELSE IF ~is_object(stdin)
    THEN HookExit(1, None, Some("AttributeError"), "crash")    \* line 77
    ELSE IF get(stdin[1], "tool_name", "") # "Bash"
    THEN HookExit(0, None, None, "not_bash")
    ELSE IF get(environ, "RALPH_HOOK_AUTO_APPROVE", "") = "false"
    THEN HookExit(0, None, None, "disabled")
    ELSE
    LET command == get(get(stdin[1], "tool_input", <<>>), "command", "")
    IN  IF command = ""
        THEN HookExit(0, None, None, "empty")
        ELSE classify(strip(command))

(***************************************************************************)
(* post-edit-lint.py.  The linter is a subprocess: its run is None when it *)
(* times out or cannot be started, else Some(stdout + stderr).  In the    *)
(* context printed, the warning sign is written "(!)" and each backquote   *)
(* of the code fence is written as a quote.                                *)
(***************************************************************************)
LINTABLE_EXTENSIONS == {".ts", ".tsx", ".js", ".jsx", ".mjs", ".cjs"}

PACKAGE_PATTERNS ==
    << <<"frontend/", "frontend">>, <<"backend/", "backend">>,
       <<"electron/", "electron">>, <<"mobile/", "mobile">>,
       <<"chrome-extension/", "chrome-extension">> >>

\* lines 35-40: the package of the first pattern the path contains
get_package_for_file(file_path) ==
    LET hits == {n \in 1..Len(PACKAGE_PATTERNS) : Contains(file_path, PACKAGE_PATTERNS[n][1])}
    IN  IF hits = {} THEN None
        ELSE Some(PACKAGE_PATTERNS[CHOOSE n \in hits : \A m \in hits : n <= m][2])

\* Path(file_path).suffix: the last component from its last dot on, when that
\* dot is neither its first nor its last character
suffix(file_path) ==
    LET slashes == {i \in 1..Len(file_path) : Ch(file_path, i) = "/"}
        from    == IF slashes = {} THEN 1
                   ELSE (CHOOSE i \in slashes : \A j \in slashes : j <= i) + 1
        name    == SubSeq(file_path, from, Len(file_path))
        dots    == {i \in 1..Len(name) : Ch(name, i) = "."}
        dot     == IF dots = {} THEN 0 ELSE CHOOSE i \in dots : \A j \in dots : j <= i
    IN  IF 1 < dot /\ dot < Len(name) THEN SubSeq(name, dot, Len(name)) ELSE ""

\* lines 71-79: the lines of the linter's output that are kept
relevant_line(line) ==
    /\ strip(line) # ""
    /\ ~StartsWith(line, "Finished in")
    /\ ~Contains(line, "Found 0 warnings")

\* line 82: relevant[:15]
MaxLintLines == 15

\* lines 64-84, on the text the linter printed
lint_issues(output) ==
    IF output # "" /\ (re_search("warning", output) \/ re_search("error", output))
    THEN LET relevant == SelectSeq(split(output), relevant_line)
         IN  IF relevant # <<>>
             THEN Some(join("\n", SubSeq(relevant, 1,
                                         IF Len(relevant) < MaxLintLines
                                         THEN Len(relevant) ELSE MaxLintLines)))
             ELSE None
    ELSE None

\* lines 43-91
run_lint(process) == IF process = None THEN None ELSE lint_issues(strip(process[1]))

\* lines 134-136
relative_path_of(file_path, project_root) ==
    IF StartsWith(file_path, project_root)
    THEN lstrip_slash(SubSeq(file_path, Len(project_root) + 1, Len(file_path)))
    ELSE file_path

\* lines 132-146
lint_exit(file_path, project_root, lint_output) ==
    IF lint_output = None
    THEN HookExit(0, None, None, "clean")
    ELSE HookExit(0,
                  Some([hookSpecificOutput |->
                          [hookEventName     |-> "PostToolUse",
                           additionalContext |->
                               "(!) Lint issues in "
                               \o relative_path_of(file_path, project_root)
                               \o ":\n'''\n" \o lint_output[1]
                               \o "\n'''\nConsider fixing these before continuing."]]),
                  None, "issues")

\* lines 116-130, on the path of line 111
file_exit(file_path, project_root, process) ==
    IF file_path = ""
    THEN HookExit(0, None, None, "no_file")
    ELSE IF lower(suffix(file_path)) \notin LINTABLE_EXTENSIONS
    THEN HookExit(0, None, None, "not_lintable")
    ELSE IF get_package_for_file(file_path) = None
    THEN HookExit(0, None, None, "no_package")
    ELSE lint_exit(file_path, project_root, run_lint(process))

\* line 111: tool_input.get("file_path") or tool_input.get("filePath", "")
file_path_of(tool_input) ==
    IF get(tool_input, "file_path", "") # ""
    THEN tool_input["file_path"]
    ELSE get(tool_input, "filePath", "")

\* lines 94-146; cwd is the working directory of the hook
post_edit_lint_main(stdin, environ, cwd, process) ==
    IF stdin = None
    THEN HookExit(0, None, None, "bad_input")
    ELSE IF ~is_object(stdin)
    THEN HookExit(1, None, Some("AttributeError"), "crash")    \* line 101
    ELSE IF get(stdin[1], "tool_name", "") \notin {"Edit", "Write"}
    THEN HookExit(0, None, None, "not_edit")
    ELSE IF get(environ, "RALPH_HOOK_LINT", "") = "false"
    THEN HookExit(0, None, None, "disabled")
    ELSE file_exit(file_path_of(get(stdin[1], "tool_input", <<>>)),
                   get(environ, "CLAUDE_PROJECT_DIR", cwd), process)

(***************************************************************************)
(* Bounds and inputs                                                       *)
(***************************************************************************)
\* RALPH_MAX_CONTINUATIONS is unset (the default applies) or "0" .. MaxEnvMax
MaxEnvMax == 1

\* a stop request that would store a count above MaxCount is not served
MaxCount == 7

\* a dict with the keys whose optional value is given
Dict(pairs) ==
    LET present == {q \in pairs : q[2] # None}
    IN  [key \in {q[1] : q \in present} |->
            (CHOOSE q \in present : q[1] = key)[2][1]]

\* the "session_id" key: absent (the run uses "unknown") or a string
SessionIds == {None, Some(Some("s1"))}

\* the "transcript_path" key: absent, empty, a missing file, or one of the files
TranscriptPaths ==
    {None, Some(""), Some("t_missing")} \cup {Some(f) : f \in DOMAIN transcript_files}

StopStdins ==
    {None} \cup
    {Some(Dict({<<"session_id", sid>>, <<"stop_hook_active", Some(active)>>,
                <<"transcript_path", path>>})) :
        sid \in SessionIds, active \in BOOLEAN, path \in TranscriptPaths}

StopEnvirons(max) ==
    {Dict({<<"RALPH_FORCE_STOP", force>>, <<"RALPH_TARGET_PACKAGE", pkg>>,
           <<"RALPH_MAX_CONTINUATIONS", max>>}) :
        force \in {None, Some("true")}, pkg \in {None, Some("mobile")}}

MaxEnvs == {None} \cup {Some(ToString(n)) : n \in 0..MaxEnvMax}

(***************************************************************************)
(* State                                                                   *)
(***************************************************************************)
VARIABLES
    state_file,      \* .ralph/hook-state.json: None, or Some(the dict stored)
    max_env,         \* RALPH_MAX_CONTINUATIONS of the run: None, or Some(digits)
    file_before,     \* the state file as the last stop request found it
    stop_request,    \* the last stop request: None, or Some([stdin, environ])
    stop_result,     \* its result: None, or Some(result of validate_stop_main)
    blocks,          \* the Blocks in a row answered to requests of one session id
    scan_input,      \* scanner under test: [transcript, target_package]
    scan_report,     \* None, or Some(its EvidenceReport)
    approve_input,   \* classifier under test: [stdin, environ]
    approve_result,  \* None, or Some(result of auto_approve_main)
    lint_input,      \* the last run of the lint hook: [stdin, environ, process]
    lint_result,     \* None, or Some(result of post_edit_lint_main)
    pc,              \* two overlapping runs of the gate: where each run is
    loaded,          \* the state dict each of the two runs holds in memory
    overlapped       \* the two runs have overlapped once

vars == <<state_file, max_env, file_before, stop_request, stop_result, blocks,
          scan_input, scan_report, approve_input, approve_result,
          lint_input, lint_result, pc, loaded, overlapped>>

gate_vars == <<state_file, max_env, file_before, stop_request, stop_result, blocks>>

scan_vars == <<scan_input, scan_report>>

approve_vars == <<approve_input, approve_result>>

lint_vars == <<lint_input, lint_result>>

race_vars == <<pc, loaded, overlapped>>

GateIdle ==
    /\ state_file = None
    /\ file_before = None
    /\ stop_request = None
    /\ stop_result = None
    /\ blocks = 0

ScanIdle ==
    /\ scan_input = [transcript |-> "", target_package |-> ""]
    /\ scan_report = None

ApproveIdle ==
    /\ approve_input = [stdin |-> None, environ |-> <<>>]
    /\ approve_result = None

LintIdle ==
    /\ lint_input = [stdin |-> None, environ |-> <<>>, process |-> None]
    /\ lint_result = None

\* the two runs of the gate that may overlap
Procs == {1, 2}

RaceIdle ==
    /\ pc = [p \in Procs |-> "idle"]
    /\ loaded = [p \in Procs |-> load_ralph_state(None)]
    /\ overlapped = FALSE

(***************************************************************************)
(* The stop gate: one run of validate-stop.py per stop request             *)
(***************************************************************************)
\* what the host reads off a run
Decision(result) ==
    IF result.exit_code # 0 THEN "Error"
    ELSE IF result.stdout # None THEN "Block"
    ELSE "Allow"

\* the session id a request is handled under (line 148)
SessionOf(request) ==
    IF request = None \/ ~is_object(request[1].stdin) THEN None
    ELSE Some(get(request[1].stdin[1], "session_id", Some("unknown")))

Init ==
    /\ GateIdle
    /\ max_env \in MaxEnvs
    /\ ScanIdle
    /\ ApproveIdle
    /\ LintIdle
    /\ RaceIdle

\* the run of one stop request leaves its result and the state file it wrote
served(stdin, environ, result) ==
    /\ IF Len(result.file) = 2 THEN TRUE
       ELSE load_ralph_state(result.file).continuation_count <= MaxCount
    /\ state_file' = result.file
    /\ file_before' = state_file
    /\ stop_request' = Some([stdin |-> stdin, environ |-> environ])
    /\ stop_result' = Some(result)
    /\ blocks' = IF Decision(result) # "Block" THEN 0
                 ELSE IF blocks > 0 /\ SessionOf(stop_request) = SessionOf(stop_request')
                 THEN blocks + 1
                 ELSE 1
    /\ UNCHANGED <<max_env, scan_vars, approve_vars, lint_vars, race_vars>>

\* one stop request drawn from the given inputs, and its run
serve(stdins, environs) ==
    \E stdin \in stdins, environ \in environs :
        served(stdin, environ, validate_stop_main(stdin, environ, state_file))

validate_stop == serve(StopStdins, StopEnvirons(max_env))

Next == validate_stop

Spec == Init /\ [][Next]_vars

\* The same gate under an endless stream of well-formed stop requests, each
\* served (the host calls the hook once per stop request and waits for it),
\* drawn from fewer transcripts: none, one that passes, one that does not.
LiveStdins ==
    {Some(Dict({<<"session_id", sid>>, <<"stop_hook_active", Some(active)>>,
                <<"transcript_path", path>>})) :
        sid \in SessionIds, active \in BOOLEAN,
        path \in {None, Some("t_pass"), Some("t_nolint")}}

LiveEnvirons(max) ==
    {Dict({<<"RALPH_FORCE_STOP", force>>, <<"RALPH_MAX_CONTINUATIONS", max>>}) :
        force \in {None, Some("true")}}

stop_requested == serve(LiveStdins, LiveEnvirons(max_env))

LiveNext == stop_requested

LiveSpec == Init /\ [][LiveNext]_vars /\ WF_vars(stop_requested)

\* The gate started over a state file that something else than the gate left
\* behind: text that is not JSON, a JSON list, an object with a string for a
\* count; or over no file.
CorruptFiles ==
    {None, <<"text", "{oops">>, <<"json", "[]">>,
     <<"count", [continuation_count |-> "3", session_id |-> Some("s1")]>>}

CorruptStdins ==
    {Some(Dict({<<"session_id", Some(Some(sid))>>, <<"stop_hook_active", Some(active)>>,
                <<"transcript_path", path>>})) :
        sid \in {"s1", "s2"}, active \in BOOLEAN,
        path \in {None, Some("t_nolint")}}

CorruptInit ==
    /\ state_file \in CorruptFiles
    /\ file_before = None
    /\ stop_request = None
    /\ stop_result = None
    /\ blocks = 0
    /\ max_env \in MaxEnvs
    /\ ScanIdle
    /\ ApproveIdle
    /\ LintIdle
    /\ RaceIdle

corrupt_stop == serve(CorruptStdins, LiveEnvirons(max_env))

CorruptNext == corrupt_stop

CorruptSpec == CorruptInit /\ [][CorruptNext]_vars

\* Two runs of the gate for stop requests of one session, each a sequence of
\* steps on the shared state file: the load of line 147 (with the update of
\* lines 151-154, which is local), the two steps of write_text at line 155
\* (open(path, "w") empties the file, the close writes the text), and the
\* decision of lines 158-205.  The runs follow one another, and once they
\* overlap.  The transcript of the requests lacks the lint command, so a run
\* under the maximum is blocked and saves once.
RaceInput ==
    Dict({<<"session_id", Some(Some("s1"))>>, <<"transcript_path", Some("t_nolint")>>})

RaceEnviron == Dict({<<"RALPH_MAX_CONTINUATIONS", max_env>>})

\* the file between the open and the close of write_text
Truncated == <<"text", "">>

\* lines 147-154
race_load(p) ==
    /\ pc[p] = "idle"
    /\ \/ /\ \A q \in Procs : pc[q] = "idle"
          /\ UNCHANGED overlapped
       \/ /\ \E q \in Procs : pc[q] # "idle"
          /\ ~overlapped
          /\ overlapped' = TRUE
    /\ loaded' = [loaded EXCEPT ![p] =
                     updated_state(load_ralph_state(state_file),
                                   get(RaceInput, "session_id", Some("unknown")))]
    /\ loaded'[p].continuation_count <= MaxCount
    /\ pc' = [pc EXCEPT ![p] = "open"]
    /\ UNCHANGED <<state_file, max_env, file_before, stop_request, stop_result,
                   blocks, scan_vars, approve_vars, lint_vars>>

\* line 43: open(path, "w")
race_open(p) ==
    /\ pc[p] = "open"
    /\ state_file' = Truncated
    /\ pc' = [pc EXCEPT ![p] = "write"]
    /\ UNCHANGED <<max_env, file_before, stop_request, stop_result, blocks,
                   loaded, overlapped, scan_vars, approve_vars, lint_vars>>

\* line 43: the text is written when the file is closed
race_write(p) ==
    /\ pc[p] = "write"
    /\ state_file' = save_ralph_state(loaded[p])
    /\ pc' = [pc EXCEPT ![p] = "decide"]
    /\ UNCHANGED <<max_env, file_before, stop_request, stop_result, blocks,
                   loaded, overlapped, scan_vars, approve_vars, lint_vars>>

\* lines 158-205
race_decided(p, result) ==
    /\ pc[p] = "decide"
    /\ pc' = [pc EXCEPT ![p] = "idle"]
    /\ stop_request' = Some([stdin |-> Some(RaceInput), environ |-> RaceEnviron])
    /\ stop_result' = Some(result)
    /\ blocks' = IF Decision(result) = "Block" THEN blocks + 1 ELSE 0
    /\ UNCHANGED <<state_file, max_env, file_before, loaded, overlapped,
                   scan_vars, approve_vars, lint_vars>>

race_decide(p) ==
    race_decided(p, gate_exit(RaceInput, RaceEnviron, loaded[p],
                              max_continuations_of(RaceEnviron)))

race_loads == \E p \in Procs : race_load(p)

race_opens == \E p \in Procs : race_open(p)

race_writes == \E p \in Procs : race_write(p)

race_decides == \E p \in Procs : race_decide(p)

RaceNext == race_loads \/ race_opens \/ race_writes \/ race_decides

RaceSpec == Init /\ [][RaceNext]_vars

(***************************************************************************)
(* The evidence scanner on its own: a transcript is a head of command      *)
(* lines, an early output line, filler lines and a late output line.       *)
(***************************************************************************)
ScanHeads ==
    {"",
     FrontendBuild,
     FrontendBuild \o FrontendTest \o FrontendLint,
     "CD Frontend  &&npm RUN build\ncd frontend\n&& npm test\ncd frontend&&npm run lint\n",
     MobileRun}

ScanEarly == {"", "Test failed\n", "Build completed\n"}

ScanLate ==
    {"", "Build completed", "All tests passed\n", "0 errors",
     "Found 2 warnings and 0 errors\n", "3 errors\n", "FAIL  src/app.test.ts\n",
     "FAIL", "npm ERR! code 1\n", "error TS2322\n", "#%~ 12 tests passed\n",
     "build COMPLETED\n", "7 errorsx\n", "Build completed\nBuild failed\n",
     "0 errors_total\n"}

ScanPackages == {"frontend", "mobile", "other"}

\* n filler lines
Filler(n) == IF n = 0 THEN "" ELSE join("\n", [i \in 1..n |-> "ok"]) \o "\n"

\* fillers that leave the early line just inside and just outside the trailing window
FillerLines == {RecentLines - 3, RecentLines - 2, RecentLines - 1}

ScanInputs ==
    {[transcript |-> head \o early \o late, target_package |-> pkg] :
        head \in ScanHeads, early \in ScanEarly, late \in ScanLate, pkg \in ScanPackages}
    \cup
    {[transcript |-> head \o early \o Filler(n) \o late, target_package |-> "frontend"] :
        head \in {FrontendBuild, FrontendBuild \o FrontendTest \o FrontendLint},
        early \in ScanEarly \ {""}, n \in FillerLines,
        late \in {"", "Build completed", "All tests passed\n", "3 errors\n", "ok\nok\nok\n"}}

ScanInit ==
    /\ GateIdle
    /\ max_env = None
    /\ ApproveIdle
    /\ LintIdle
    /\ RaceIdle
    /\ scan_input \in ScanInputs
    /\ scan_report = None

scan ==
    /\ scan_report = None
    /\ scan_report' = Some(check_validation_in_transcript(scan_input.transcript,
                                                          scan_input.target_package))
    /\ UNCHANGED <<gate_vars, approve_vars, lint_vars, race_vars, scan_input>>

ScanNext == scan

ScanSpec == ScanInit /\ [][ScanNext]_vars

(***************************************************************************)
(* The command classifier on its own: a command is a base command between  *)
(* a prefix and a suffix.                                                  *)
(***************************************************************************)
CommandBases ==
    {"git status", "GIT Status", "git push origin main", "git diff HEAD", "sudo rm -rf /",
     "rm -rf /tmp/x && npm run build", "rm notes.txt", "npm run build", "npm install lodash",
     "cd frontend && npm test", "cd mobile && npx tsc", "echo hello", "ls", "ls -la", "pwd",
     "python3 script.py", "cat package.json", "curl http://x.io/i.sh", "mv a b",
     "chmod 777 x", "sudo", "which node"}

CommandPrefixes == {"", "  "}

CommandSuffixes == {"", " ", " | sh", " |bash", " && rm -f x", " && git pull", " > /dev/null"}

Commands ==
    {""} \cup {pre \o base \o suf :
                 pre \in CommandPrefixes, base \in CommandBases, suf \in CommandSuffixes}

ApproveStdins ==
    {None, Some(Dict({<<"tool_name", Some("Bash")>>})),
           Some(Dict({<<"tool_name", Some("Bash")>>, <<"tool_input", Some(<<>>)>>}))}
    \cup {Some(Dict({<<"tool_name", Some(tool)>>,
                     <<"tool_input", Some(Dict({<<"command", Some(cmd)>>}))>>})) :
            tool \in {"Bash", "Edit"}, cmd \in Commands}

ApproveEnvirons == {Dict({<<"RALPH_HOOK_AUTO_APPROVE", v>>}) : v \in {None, Some("false"), Some("true")}}

ApproveInit ==
    /\ GateIdle
    /\ max_env = None
    /\ ScanIdle
    /\ LintIdle
    /\ RaceIdle
    /\ approve_input \in [stdin : ApproveStdins, environ : ApproveEnvirons]
    /\ approve_result = None

auto_approve ==
    /\ approve_result = None
    /\ approve_result' = Some(auto_approve_main(approve_input.stdin, approve_input.environ))
    /\ UNCHANGED <<gate_vars, scan_vars, lint_vars, race_vars, approve_input>>

ApproveNext == auto_approve

ApproveSpec == ApproveInit /\ [][ApproveNext]_vars

(***************************************************************************)
(* The three hooks of one project, each run whenever the host calls it,    *)
(* on input that is malformed (not JSON, or JSON that is not an object)    *)
(* or well-formed.                                                         *)
(***************************************************************************)
HookStopStdins ==
    {None, NotAnObject} \cup
    {Some(Dict({<<"session_id", Some(Some("s1"))>>, <<"transcript_path", path>>})) :
        path \in {Some("t_nolint")}}

HookApproveStdins ==
    {None, NotAnObject} \cup
    {Some(Dict({<<"tool_name", Some("Bash")>>,
                <<"tool_input", Some(Dict({<<"command", Some(cmd)>>}))>>})) :
        cmd \in {"git status"}}

HookLintStdins ==
    {None, NotAnObject} \cup
    {Some(Dict({<<"tool_name", Some("Edit")>>,
                <<"tool_input", Some(Dict({<<"file_path", Some(path)>>}))>>})) :
        path \in {"/work/frontend/src/App.tsx"}}

\* what the linter printed: one warning
LintRuns ==
    {Some("App.tsx:1 warning: unused import\nFound 1 warning and 0 errors.\n")}

\* the working directory of the hooks
Cwd == "/work"

hook_stop == serve(HookStopStdins, LiveEnvirons(max_env))

\* the runs of the two other hooks on these inputs, computed once
ApproveRuns == [stdin \in HookApproveStdins |-> auto_approve_main(stdin, <<>>)]

LintResults ==
    [x \in HookLintStdins \X LintRuns |-> post_edit_lint_main(x[1], <<>>, Cwd, x[2])]

hook_approve ==
    \E stdin \in HookApproveStdins :
        /\ approve_input' = [stdin |-> stdin, environ |-> <<>>]
        /\ approve_result' = Some(ApproveRuns[stdin])
        /\ UNCHANGED <<gate_vars, scan_vars, lint_vars, race_vars>>

hook_lint ==
    \E stdin \in HookLintStdins, process \in LintRuns :
        /\ lint_input' = [stdin |-> stdin, environ |-> <<>>, process |-> process]
        /\ lint_result' = Some(LintResults[<<stdin, process>>])
        /\ UNCHANGED <<gate_vars, scan_vars, approve_vars, race_vars>>

HooksNext == hook_stop \/ hook_approve \/ hook_lint

HooksSpec == Init /\ [][HooksNext]_vars

(***************************************************************************)
(* The last stop request and its answer, as the properties below read them *)
(***************************************************************************)
Handled == stop_result # None

Req == stop_request[1]

Res == stop_result[1]

WellFormed == Handled /\ is_object(Req.stdin)

Forced == Handled /\ get(Req.environ, "RALPH_FORCE_STOP", "") = "true"

Active == WellFormed /\ get(Req.stdin[1], "stop_hook_active", FALSE)

\* the request got past the forceStop and stopAlreadyActive checks
Gated == WellFormed /\ ~Forced /\ ~Active

Answer == IF Handled THEN Decision(Res) ELSE "None"

StoredBefore == load_ralph_state(file_before)

StoredAfter == load_ralph_state(state_file)

\* maxContinuations as configured for the run
MaxContinuations ==
    IF max_env = None THEN int(DefaultMaxContinuations) ELSE int(max_env[1])

RequestSession == get(Req.stdin[1], "session_id", Some("unknown"))

NewSession == Gated /\ StoredBefore.session_id # RequestSession

\* the count the request is decided on
IncrementedCount == IF NewSession THEN 1 ELSE StoredBefore.continuation_count + 1

TranscriptPath == get(Req.stdin[1], "transcript_path", "")

TranscriptReadable ==
    /\ WellFormed
    /\ TranscriptPath \in DOMAIN transcript_files
    /\ transcript_files[TranscriptPath].readable

TargetPackage == get(Req.environ, "RALPH_TARGET_PACKAGE", "frontend")

\* none of the escapes applies: the evidence decides
NoEscape == Gated /\ IncrementedCount <= MaxContinuations /\ TranscriptReadable

(***************************************************************************)
(* Properties of the stop gate                                             *)
(***************************************************************************)
\* C1: requests of one session id answered one after another get at most
\* maxContinuations Blocks in a row, and a request that got past the forceStop
\* and stopAlreadyActive checks and whose incremented count exceeds
\* maxContinuations is answered Allow, whatever its transcript holds.
C1_BlocksBoundedPerSession ==
    Handled =>
        /\ blocks <= MaxContinuations
        /\ (Gated /\ IncrementedCount > MaxContinuations) => Answer = "Allow"

\* C1 witness: with maxContinuations already counted in the session, a request
\* whose transcript lacks the lint run is let through
C1_EscapeReached ==
    /\ Gated
    /\ ~NewSession
    /\ MaxContinuations >= 1
    /\ StoredBefore.continuation_count = MaxContinuations
    /\ TranscriptPath = "t_nolint"
    /\ Answer = "Allow"

\* C2: in an endless stream of stop requests served against the same state
\* file, whatever the session ids of the requests are (changing or alternating
\* ones included), not every request is answered Block: some request is
\* eventually answered Allow.
C2_SomeRequestAllowed == <>(Answer = "Allow")

\* C3: every Allow of an exit that writes the state (stopAlreadyActive, the
\* max-continuations escape, a missing or unreadable transcript, passed
\* validation) leaves the persisted continuationCount at 0.
C3_EveryAllowResets ==
    (Handled /\ Answer = "Allow" /\ ~Forced /\ (Active \/ Gated)) =>
        StoredAfter.continuation_count = 0

\* C4: a request that got past the forceStop and stopAlreadyActive checks with
\* a session id other than the stored one is decided on a count of exactly 1
\* and the new session id is stored, so the blocks of the previous session do
\* not count towards maxContinuations.
C4_SessionIsolation ==
    NewSession =>
        /\ Res.count = 1
        /\ StoredAfter.session_id = RequestSession
        /\ StoredAfter.continuation_count <= 1
        /\ MaxContinuations >= 1 => Res.path # "max_continuations"

\* C4 witness: a new session is blocked on count 1 over a stored count of 2 or more
C4_NewSessionOverOldCount ==
    /\ NewSession
    /\ StoredBefore.continuation_count >= 2
    /\ Answer = "Block"
    /\ StoredAfter.continuation_count = 1

\* C5: with forceStop set a well-formed request is answered Allow and the
\* persisted GateState is left as it was.
C5_ForceStopAllows ==
    (WellFormed /\ Forced) => (Answer = "Allow" /\ state_file = file_before)

\* C5 witness: forceStop lets through a request that would have been blocked
C5_ForcedOverBlock ==
    /\ WellFormed
    /\ Forced
    /\ ~Active
    /\ StoredBefore.continuation_count >= 1
    /\ StoredBefore.continuation_count < MaxContinuations
    /\ TranscriptPath = "t_nolint"
    /\ Answer = "Allow"

\* C6: with forceStop unset and stopAlreadyActive true the request is answered
\* Allow and the persisted continuationCount is 0 afterwards.
C6_AlreadyActiveAllows ==
    (Active /\ ~Forced) => (Answer = "Allow" /\ StoredAfter.continuation_count = 0)

\* C6 witness: stopAlreadyActive clears a stored count of 2 or more
C6_ActiveClearsCount ==
    /\ Active
    /\ ~Forced
    /\ StoredBefore.continuation_count >= 2
    /\ TranscriptPath = "t_nolint"
    /\ StoredAfter.continuation_count = 0

\* C7: when no escape applies the answer is Allow exactly if the evidence
\* report has passed: Allow stores count 0, Block prints {decision: "block",
\* reason} and stores the incremented count.  The frontend transcript with the
\* three commands and "Build completed" is allowed; without the lint run it is
\* blocked with lint named as missing.
C7_AllowIffPassed ==
    NoEscape =>
        LET report == Scan(transcript_files[TranscriptPath].text, TargetPackage)
        IN  /\ Answer \in {"Allow", "Block"}
            /\ (Answer = "Allow") = report.passed
            /\ Answer = "Allow" => StoredAfter.continuation_count = 0
            /\ Answer = "Block" =>
                  /\ DOMAIN Res.stdout[1] = {"decision", "reason"}
                  /\ Res.stdout[1].decision = "block"
                  /\ StoredAfter.continuation_count = IncrementedCount
            /\ (TranscriptPath = "t_pass" /\ TargetPackage = "frontend") => Answer = "Allow"
            /\ (TranscriptPath = "t_nolint" /\ TargetPackage = "frontend") =>
                  /\ Answer = "Block"
                  /\ report.missing = <<"lint">>
                  /\ re_search("Missing: lint\\. ", Res.stdout[1].reason)

\* C7 witness: the transcript without the lint run is blocked, lint named
C7_BlockedForMissingLint ==
    /\ NoEscape
    /\ TranscriptPath = "t_nolint"
    /\ TargetPackage = "frontend"
    /\ Answer = "Block"
    /\ StoredAfter.continuation_count = IncrementedCount
    /\ re_search("Missing: lint\\. ", Res.stdout[1].reason)

\* the suffix every block reason carries: the persisted count and the maximum
ContinuationNote ==
    " (Continuation " \o ToString(StoredAfter.continuation_count) \o "/"
    \o ToString(MaxContinuations) \o ")"

\* C15: a request that got past the forceStop and stopAlreadyActive checks is
\* decided on the loaded count (0 after a session reset) plus exactly 1, and
\* that count is in the state file on every exit taken after the increment
\* (max-continuations, missing or unreadable transcript, Block); a Block leaves
\* the persisted count one greater than the count loaded; the reset of a passed
\* validation and of stopAlreadyActive is in the state file at exit too.
C15_IncrementPersistedFirst ==
    /\ Gated =>
          /\ Res.count = IncrementedCount
          /\ Res.path \in {"max_continuations", "no_transcript",
                           "unreadable_transcript", "block", "passed"}
          /\ Res.path # "passed" =>
                state_file = Some([continuation_count |-> IncrementedCount,
                                   session_id |-> RequestSession])
          /\ Res.path = "passed" =>
                state_file = Some([continuation_count |-> 0,
                                   session_id |-> RequestSession])
          /\ Answer = "Block" =>
                StoredAfter.continuation_count
                    = (IF NewSession THEN 0 ELSE StoredBefore.continuation_count) + 1
    /\ (Active /\ ~Forced) =>
          state_file = Some([continuation_count |-> 0,
                             session_id |-> StoredBefore.session_id])

\* C15 witness: a Block in a running session stores the loaded count plus one
C15_BlockStoresOneMore ==
    /\ Gated
    /\ ~NewSession
    /\ StoredBefore.continuation_count >= 2
    /\ Answer = "Block"
    /\ StoredAfter.continuation_count = StoredBefore.continuation_count + 1

\* C16: with forceStop unset, stopAlreadyActive false and the incremented count
\* not above maxContinuations, a transcript path that is absent, empty, names
\* a missing file or cannot be read gives Allow by the transcript exits, so
\* the evidence scanner is not run and the request is never blocked.
C16_FailOpenWithoutTranscript ==
    (Gated /\ IncrementedCount <= MaxContinuations /\ ~TranscriptReadable) =>
        /\ Answer = "Allow"
        /\ Res.path \in {"no_transcript", "unreadable_transcript"}
        /\ (TranscriptPath \in DOMAIN transcript_files) = (Res.path = "unreadable_transcript")

\* C16 witness: a transcript that exists and cannot be read lets the stop
\* through in a session that was blocked before
C16_UnreadableAllowed ==
    /\ Gated
    /\ ~NewSession
    /\ StoredBefore.continuation_count >= 1
    /\ IncrementedCount <= MaxContinuations
    /\ TranscriptPath = "t_locked"
    /\ Answer = "Allow"

\* C17: a Block carries the message of its cause in the order missing
\* validations (listing the missing kinds), detected failures, unconfirmed
\* success; one of the three applies to every Block, the generic "Validation
\* incomplete" message is never printed, and the message ends with the
\* persisted continuation count and the maximum.
C17_ReasonByCause ==
    (Handled /\ Answer = "Block") =>
        LET report == Scan(transcript_files[TranscriptPath].text, TargetPackage)
            reason == Res.stdout[1].reason
        IN  /\ NoEscape
            /\ EndsWith(reason, ContinuationNote)
            /\ ~StartsWith(reason, "Validation incomplete")
            /\ IF report.missing # <<>>
               THEN StartsWith(reason, "Run validation before completing. Missing: "
                                       \o join(", ", report.missing) \o ". Commands: ")
               ELSE IF report.has_failures
               THEN StartsWith(reason, "Validation errors detected.")
               ELSE /\ ~report.has_success
                    /\ StartsWith(reason, "Validation commands ran but success not confirmed.")

\* C17 witness: commands are missing and the window holds a failure marker;
\* the message is the one about the missing commands
C17_MissingBeforeFailures ==
    /\ Handled
    /\ Answer = "Block"
    /\ Scan(transcript_files[TranscriptPath].text, TargetPackage).missing # <<>>
    /\ Scan(transcript_files[TranscriptPath].text, TargetPackage).has_failures
    /\ StartsWith(Res.stdout[1].reason, "Run validation before completing.")
    /\ StoredAfter.continuation_count >= 2

\* C19: the max-continuations escape leaves the incremented count stored, so
\* once the stored count exceeds maxContinuations every request of the stored
\* session that gets past the forceStop and stopAlreadyActive checks is
\* answered Allow by that escape, without the transcript being read, and the
\* count grows by one; only stopAlreadyActive or another session id makes the
\* stored count anything else than the same or one more.
C19_GateStaysOpen ==
    Handled =>
        /\ Res.path = "max_continuations" =>
              /\ Answer = "Allow"
              /\ StoredAfter.continuation_count = IncrementedCount
              /\ StoredAfter.continuation_count > MaxContinuations
        /\ (Gated /\ ~NewSession /\ StoredBefore.continuation_count > MaxContinuations) =>
              /\ Answer = "Allow"
              /\ Res.path = "max_continuations"
              /\ StoredAfter.continuation_count = StoredBefore.continuation_count + 1
              /\ StoredAfter.session_id = StoredBefore.session_id
        /\ (StoredBefore.continuation_count > MaxContinuations
                /\ ~(Active /\ ~Forced) /\ ~NewSession) =>
              StoredAfter.continuation_count >= StoredBefore.continuation_count

\* C19 witness: the request after the escape, with a transcript that would be
\* blocked, is let through and the count grows beyond maxContinuations + 1
C19_SecondEscape ==
    /\ Gated
    /\ ~NewSession
    /\ MaxContinuations >= 1
    /\ StoredBefore.continuation_count = MaxContinuations + 1
    /\ TranscriptPath = "t_nolint"
    /\ Answer = "Allow"
    /\ StoredAfter.continuation_count = MaxContinuations + 2

\* the last stop request found a state file that does not hold a GateState
FoundCorrupt == Handled /\ (file_before = None \/ Len(file_before) = 2)

\* the same request against the zero-value state
FromZeroState == validate_stop_main(Req.stdin, Req.environ, None)

\* C13: a stop request that finds the state file absent, unparseable, or
\* holding JSON of the wrong shape or with a count that is no number ends
\* without an error status and with the decision it would have from the
\* zero-value state {continuation_count: 0, session_id: null}.
C13_CorruptStateIsZeroState ==
    (FoundCorrupt /\ WellFormed) =>
        /\ Res.exit_code = 0
        /\ Decision(Res) = Decision(FromZeroState)
        /\ Res.stdout = FromZeroState.stdout

\* C14: over two runs of one session that overlap once, with the loads and
\* saves of the two interleaved in any order, the session is blocked at most
\* maxContinuations + 1 times in a row.
C14_RaceCostsOneBlock ==
    blocks <= max_continuations_of(RaceEnviron) + 1

(***************************************************************************)
(* Properties of the evidence scanner                                      *)
(***************************************************************************)
Scanned == scan_report # None

Report == scan_report[1]

\* the trailing window of the scanned transcript
Window == recent_output_of(scan_input.transcript)

FailureInWindow == any_search(failure_patterns, Window)

SuccessInWindow == any_search(success_patterns, Window)

\* the elements of a list
Range(seq) == {seq[n] : n \in 1..Len(seq)}

\* the requirement list that applies: the package's, or the default package's
Requirements ==
    IF scan_input.target_package \in DOMAIN package_commands
    THEN package_commands[scan_input.target_package]
    ELSE package_commands["frontend"]

NoCommandFound ==
    \A n \in 1..Len(Requirements) : ~re_search(Requirements[n][1], scan_input.transcript)

\* C8: passed is true exactly if missingKinds is empty, hasFailureSignal is
\* false and hasSuccessSignal is true; a trailing window that holds a failure
\* marker and a success marker gives passed = false.
C8_PassedIffCleanEvidence ==
    Scanned =>
        /\ Report.passed = (Report.missing = <<>> /\ ~Report.has_failures /\ Report.has_success)
        /\ (FailureInWindow /\ SuccessInWindow) => ~Report.passed

\* C8 witness: every command ran, the window holds both markers, not passed
C8_BothMarkersNotPassed ==
    /\ Scanned
    /\ Report.missing = <<>>
    /\ FailureInWindow
    /\ SuccessInWindow
    /\ Report.has_failures
    /\ Report.has_success
    /\ ~Report.passed

\* C9: ranKinds and missingKinds are disjoint and together are the requirement
\* list of the target package (the default package's for an unrecognized one);
\* if no required command occurs in the transcript, missingKinds is the whole
\* list and passed is false, whatever success markers the window holds.
C9_RanAndMissingPartition ==
    Scanned =>
        /\ Range(Report.ran_commands) \cap Range(Report.missing) = {}
        /\ Range(Report.ran_commands) \cup Range(Report.missing)
              = {Requirements[n][2] : n \in 1..Len(Requirements)}
        /\ Len(Report.ran_commands) + Len(Report.missing) = Len(Requirements)
        /\ NoCommandFound =>
              /\ Report.missing = [n \in 1..Len(Requirements) |-> Requirements[n][2]]
              /\ ~Report.passed

\* C9 witness: an unrecognized package, no command in the transcript, a success
\* marker in the window: all three kinds of the default package are missing
C9_NothingRanUnknownPackage ==
    /\ Scanned
    /\ scan_input.target_package = "other"
    /\ NoCommandFound
    /\ SuccessInWindow
    /\ ~FailureInWindow
    /\ Report.missing = <<"build", "test", "lint">>
    /\ ~Report.passed

\* the lines of the scanned transcript, those of the trailing window and those
\* before it
Lines == split(scan_input.transcript)

WindowStart == IF Len(Lines) > RecentLines THEN Len(Lines) - RecentLines + 1 ELSE 1

TrailingLines == join("\n", SubSeq(Lines, WindowStart, Len(Lines)))

EarlierLines == join("\n", SubSeq(Lines, 1, WindowStart - 1))

\* a required command occurs in the given text
CommandIn(text) ==
    {Requirements[n][2] : n \in {m \in 1..Len(Requirements) : re_search(Requirements[m][1], text)}}

\* C18: hasFailureSignal and hasSuccessSignal are set exactly by a marker in
\* the last 100 lines, so a marker that only occurs before them sets neither
\* (a later successful run can pass after an earlier failure), while a command
\* counts as ran when it occurs anywhere in the transcript, before the window
\* included.
C18_SignalsFromWindowOnly ==
    Scanned =>
        /\ Report.has_failures = any_search(failure_patterns, TrailingLines)
        /\ Report.has_success = any_search(success_patterns, TrailingLines)
        /\ Range(Report.ran_commands) = CommandIn(scan_input.transcript)
        /\ CommandIn(EarlierLines) \subseteq Range(Report.ran_commands)

\* C18 witness: the commands and a failure marker lie before the window, the
\* window holds a success marker only, and the report has passed
C18_StaleFailurePasses ==
    /\ Scanned
    /\ Len(Lines) > RecentLines
    /\ any_search(failure_patterns, EarlierLines)
    /\ ~any_search(failure_patterns, TrailingLines)
    /\ CommandIn(EarlierLines) # {}
    /\ CommandIn(TrailingLines) = {}
    /\ ~Report.has_failures
    /\ Report.passed

\* the success markers that count zero errors (lines 108-109)
ZeroErrorPhrase == re_search("0 errors", Window)

\* a zero-error phrase that ends at a word boundary
ZeroErrorCount == re_search("0 errors\\b", Window)

\* C20: a trailing window that holds a zero-error success phrase ("0 errors",
\* "Found N warnings and 0 errors") has hasFailureSignal true and passed
\* false; a report has passed only if its window holds no zero-error phrase
\* and a success marker other than a zero-error count.
C20_ZeroErrorsNeverPass ==
    Scanned =>
        /\ ZeroErrorPhrase => (Report.has_failures /\ ~Report.passed)
        /\ Report.passed =>
              /\ ~ZeroErrorPhrase
              /\ any_search(SubSeq(success_patterns, 1, 3), Window)

\* C20 with the phrase ending at a word boundary: a window that holds
\* "0 errors" not directly followed by a letter, a digit or an underscore has
\* hasFailureSignal true and passed false; a report that has passed holds no
\* such phrase in its window, and its success marker is another one or a
\* zero-error phrase that runs on into a word.
C20_ZeroErrorCountNeverPasses ==
    Scanned =>
        /\ ZeroErrorCount => (Report.has_failures /\ ~Report.passed)
        /\ Report.passed =>
              /\ ~ZeroErrorCount
              /\ \/ any_search(SubSeq(success_patterns, 1, 3), Window)
                 \/ (ZeroErrorPhrase /\ ~ZeroErrorCount)

\* C20 witness: every command ran and the window ends with the linter's
\* "Found 2 warnings and 0 errors": a failure signal, not passed
C20_CleanLintReportFails ==
    /\ Scanned
    /\ Report.missing = <<>>
    /\ re_search("Found 2 warnings and 0 errors", Window)
    /\ ~re_search("failed|FAIL\\s|ERR!|error TS|[1-9] errors?", Window)
    /\ Report.has_success
    /\ Report.has_failures
    /\ ~Report.passed

(***************************************************************************)
(* Properties of the command classifier                                    *)
(***************************************************************************)
Classified == approve_result # None

Verdict == approve_result[1]

ToolInput == get(approve_input.stdin[1], "tool_input", <<>>)

\* the hook is enabled and is given a Bash call with a non-empty command
BashCommand ==
    /\ is_object(approve_input.stdin)
    /\ get(approve_input.stdin[1], "tool_name", "") = "Bash"
    /\ get(approve_input.environ, "RALPH_HOOK_AUTO_APPROVE", "") # "false"
    /\ get(ToolInput, "command", "") # ""

\* the command as the patterns see it
Command == strip(get(ToolInput, "command", ""))

Dangerous == any_search(DANGEROUS_PATTERNS, Command)

Ask == any_search(ASK_PATTERNS, Command)

Safe == any_search(SAFE_PATTERNS, Command)

\* what the host reads off a run of the classifier
Outcome ==
    IF Verdict.exit_code = 2 THEN "Block"
    ELSE IF Verdict.stdout = Some(allow_output) THEN "Allow"
    ELSE IF Verdict.path = "ask" THEN "Ask"
    ELSE "NoOpinion"

\* C10: for a non-empty Bash command the outcome is Block exactly if a Dangerous
\* pattern matches, Ask (nothing emitted) exactly if none does and an Ask
\* pattern matches, Allow exactly if neither does and a Safe pattern matches,
\* NoOpinion otherwise.
C10_TierPrecedence ==
    (Classified /\ BashCommand) =>
        /\ (Outcome = "Block") = Dangerous
        /\ (Outcome = "Ask") = (~Dangerous /\ Ask)
        /\ (Outcome = "Allow") = (~Dangerous /\ ~Ask /\ Safe)
        /\ (Outcome = "NoOpinion") = (~Dangerous /\ ~Ask /\ ~Safe)
        /\ Outcome \in {"Ask", "NoOpinion"} => (Verdict.exit_code = 0 /\ Verdict.stdout = None)
        /\ Outcome = "Allow" => Verdict.exit_code = 0

\* C10 witness: a command that a Dangerous and a Safe pattern match is blocked
C10_DangerousAndSafeBlocked ==
    /\ Classified
    /\ BashCommand
    /\ Dangerous
    /\ Safe
    /\ ~Ask
    /\ Outcome = "Block"

(***************************************************************************)
(* Properties of the three hooks together                                  *)
(***************************************************************************)
Linted == lint_result # None

\* the input of a run was not JSON, or was JSON that is not an object
Malformed(stdin) == ~is_object(stdin)

\* C12: on malformed or absent input each of the three hooks exits with
\* status 0, prints no decision and leaves the state file as it was; for the
\* stop gate this holds with forceStop set, too.
C12_MalformedInputNoOp ==
    /\ (Handled /\ Malformed(Req.stdin)) =>
          /\ Res.exit_code = 0
          /\ Res.stdout = None
          /\ state_file = file_before
    /\ (Classified /\ Malformed(approve_input.stdin)) =>
          /\ Verdict.exit_code = 0
          /\ Verdict.stdout = None
    /\ (Linted /\ Malformed(lint_input.stdin)) =>
          /\ lint_result[1].exit_code = 0
          /\ lint_result[1].stdout = None

=============================================================================
